---- MODULE Spec2Model ----
(***************************************************************************)
(* The Genesis Engine backend: the project / blueprint / analysis state    *)
(* machine of backend/app/main.py, with the record store of               *)
(* backend/app/crud.py and backend/app/models.py and the agents of         *)
(* backend/app/agents.py.                                                  *)
(*                                                                         *)
(* One step of the model is one run of a handler between two suspension    *)
(* points (await of a provider call, of the fork subprocess): the handlers *)
(* run on one asyncio event loop, the store calls are synchronous.         *)
(***************************************************************************)
EXTENDS Integers, Sequences, FiniteSets, TLC

\* ------------------------------------------------------------------ bounds
NumProjects == 2
MaxFindings == 1
MaxDesigns == 2
MaxDeletes == 1
MaxQueryLen == 2
MaxProbe == 11
NumBranches == 3

\* get_project_fork_names(project_id, max_forks=10)
max_forks == 10
\* hybrid_search_in_fork(db, query_text, query_embedding, limit=15)
limit == 15

Projects == 1..NumProjects
Slots == 0..(MaxDesigns - 1)

\* ------------------------------------------------- names and record shapes
PRIMARY_FORK_NAME == <<0, 0>>

\* f"project_{project_id}_blueprint_{blueprint_index}"
ForkName(project_id, blueprint_index) == <<project_id, blueprint_index>>

ForkNames == {ForkName(p, i) : p \in Projects, i \in Slots}
StoreNames == {PRIMARY_FORK_NAME} \cup ForkNames

None == "None"

\* models.Blueprint and models.Analysis: the mapped columns.
BlueprintColumns == {"id", "project_id", "name", "description", "pros", "cons"}
AnalysisColumns == {"id", "blueprint_id", "category", "finding", "severity"}

\* The keyword arguments crud.save_blueprint_and_analyses passes to
\* models.Blueprint(...) and to models.Analysis(...).
BlueprintKwargs == {"project_id", "name", "description", "pros", "cons"}
AnalysisKwargs == {"blueprint_id", "category", "finding", "severity", "finding_embedding"}

\* The declarative constructor of a mapped class raises TypeError for a
\* keyword that is not an attribute of the class.
ConstructorAccepts(kwargs, columns) == kwargs \subseteq columns

VARIABLES
    TIGER_AVAILABLE,     \* database.py: the tiger CLI was found at import
    tiger_service_id,    \* settings.tiger_service_id is non-empty
    force_primary_mode,  \* main.py: the process-wide degraded flag
    projects,            \* primary store, table projects: id -> status
    blueprints,          \* store name -> rows of table blueprints
    analyses,            \* store name -> rows of table analyses
    forks,               \* fork services that exist
    fork_projects,       \* fork name -> project ids in the fork's copy of projects
    req,                 \* create_project request per project: position, response
    task,                \* blueprint_analysis_orchestrator per (project, slot)
    got,                 \* get_project: the last call and its response
    deletion,            \* delete_project: the last call and its response
    naming,              \* the fork names computed for one slot
    search               \* search_project_forks: the search request

vars == <<TIGER_AVAILABLE, tiger_service_id, force_primary_mode, projects,
          blueprints, analyses, forks, fork_projects, req, task, search, got,
          deletion, naming>>

config == <<TIGER_AVAILABLE, tiger_service_id>>
stores == <<blueprints, analyses, forks, fork_projects>>

Statuses == {"pending", "processing", "completed", "error"}

Exists(p) == projects[p] \in Statuses

\* ---------------------------------------------------------------- crud.py
\* A query without the filter on the id: the first project row is written.
UpdateProjectStatusFirst(table, p, status) ==
    IF \E q \in DOMAIN table : table[q] \in Statuses
    THEN [table EXCEPT ![CHOOSE q \in DOMAIN table :
                            /\ table[q] \in Statuses
                            /\ \A r \in DOMAIN table : table[r] \in Statuses => q <= r] = status]
    ELSE table

\* crud.update_project_status: writes the status when the row exists.
UpdateProjectStatus(table, p, status) ==
    IF table[p] \in Statuses THEN [table EXCEPT ![p] = status] ELSE table

\* ------------------------------------------------------------- agents.py
\* A response of the architect call: a provider error, text that is not
\* JSON, a JSON value that is not a list, or a list of designs; a design
\* either has the four required keys or lacks one.
ArchitectResponses ==
    {[kind |-> k, designs |-> <<>>] : k \in {"provider_error", "bad_json", "not_list"}}
    \cup {[kind |-> "list", designs |-> d] :
            d \in UNION {[1..n -> BOOLEAN] : n \in 0..MaxDesigns}}

ArchitectAcceptsAnyLength(resp) ==
    /\ resp.kind = "list"
    /\ \A j \in 1..Len(resp.designs) : resp.designs[j]

\* run_architect_agent: exactly one design, with every required key.
ArchitectAccepts(resp) ==
    /\ resp.kind = "list"
    /\ Len(resp.designs) = 1
    /\ \A j \in 1..Len(resp.designs) : resp.designs[j]

\* A finding as a critique call returns it: whether it has the keys
\* category, finding and severity, whether its severity is an int, and the
\* severity.
RawFindings ==
    {[keys_ok |-> TRUE, is_int |-> TRUE, severity |-> s] : s \in {0, 10, 11}}
    \cup {[keys_ok |-> TRUE, is_int |-> FALSE, severity |-> 5],
          [keys_ok |-> FALSE, is_int |-> TRUE, severity |-> 5]}

AnalystResponses ==
    {[kind |-> k, findings |-> <<>>] : k \in {"provider_error", "bad_json", "not_list"}}
    \cup {[kind |-> "list", findings |-> f] :
            f \in UNION {[1..n -> RawFindings] : n \in 0..MaxFindings}}

\* A test of the type alone.
SeverityAnyInt(f) == f.is_int

\* agents.py 304 and 346, crud.py 196-198.
SeverityInRange(f) == f.is_int /\ 1 <= f.severity /\ f.severity <= 10

\* run_systems_analysis / run_bizops_analysis: the response is a list and
\* every finding has the required keys and an int severity in 1..10.
AnalystAccepts(resp) ==
    /\ resp.kind = "list"
    /\ \A j \in 1..Len(resp.findings) :
          resp.findings[j].keys_ok /\ SeverityInRange(resp.findings[j])

\* analysis['agent_type'] = 'systems' | 'bizops'
Tagged(findings, agent_type) ==
    [j \in 1..Len(findings) |->
        [keys_ok |-> findings[j].keys_ok, is_int |-> findings[j].is_int,
         severity |-> findings[j].severity, agent_type |-> agent_type]]

\* generate_embedding as the orchestrator sees it: a vector or an
\* exception.
EmbeddingOutcomes == {"vector", "raise"}

\* analysis["finding_embedding"] after the gather of the embedding calls:
\* None for an exception and for a result that is empty.
FindingEmbedding(outcome) == IF outcome = "vector" THEN "vector" ELSE None

\* ---------------------------------------------------------------- crud.py
\* A row whose id is the same for every run.
BlueprintRowSameId(bid, p, data) ==
    [id |-> <<1, 0>>, project_id |-> p, name |-> data.name]

\* The rows save_blueprint_and_analyses builds. description, pros and cons
\* travel with name.
BlueprintRow(bid, p, data) ==
    [id |-> bid, project_id |-> p, name |-> data.name]

AnalysisRow(bid, j, a) ==
    [id |-> <<bid, j>>, blueprint_id |-> bid, severity |-> a.severity,
     finding_embedding |-> a.finding_embedding]

\* One pass of the loop over blueprint_data["analyses"] raises when a
\* finding lacks a key, has a severity out of range, or when
\* models.Analysis(...) rejects a keyword.
AnalysisRaises(a) ==
    \/ ~a.keys_ok
    \/ ~SeverityInRange(a)
    \/ ~ConstructorAccepts(AnalysisKwargs, AnalysisColumns)

\* The flushed blueprint row staying in the store after an error.
OnSaveErrorKeepFlushed(before, flushed) == flushed

\* except: db.rollback() -- the store is as it was before the call.
OnSaveError(before, flushed) == before

\* crud.save_blueprint_and_analyses against one store. found: the project
\* row is in that store; commit_ok: db.commit() does not raise. The
\* blueprint is flushed before the loop over the analyses. result: "ok", or
\* what raised.
SaveBlueprintAndAnalyses(bps, ans, found, p, bid, data, commit_ok) ==
    LET before == [blueprints |-> bps, analyses |-> ans]
        row == BlueprintRow(bid, p, data)
        flushed == [blueprints |-> bps \cup {row}, analyses |-> ans]
        n == Len(data.analyses)
        result ==
            IF ~found THEN "project_missing"
            ELSE IF ~ConstructorAccepts(BlueprintKwargs, BlueprintColumns) THEN "invalid"
            ELSE IF \E j \in 1..n : AnalysisRaises(data.analyses[j]) THEN "invalid"
            ELSE IF ~commit_ok THEN "commit_failed"
            ELSE "ok"
        after ==
            IF result = "ok"
            THEN [blueprints |-> bps \cup {row},
                  analyses |-> ans \cup {AnalysisRow(bid, j, data.analyses[j]) : j \in 1..n}]
            ELSE IF result = "project_missing" THEN before
            ELSE OnSaveError(before, flushed)
    IN  [result |-> result, blueprints |-> after.blueprints, analyses |-> after.analyses]

\* ------------------------------------------------------------------ state
IdleRequest ==
    [pc |-> "none", response |-> "none", generation |-> "none", designs |-> 0, i |-> 0,
     calls |-> 0]

IdleTask ==
    [stage |-> "none", fork_name |-> PRIMARY_FORK_NAME,
     systems |-> "none", bizops |-> "none",
     systems_analyses |-> <<>>, bizops_analyses |-> <<>>,
     analyses |-> <<>>, embeddings |-> <<>>,
     critique |-> "none", n |-> 0, failed_embeddings |-> 0,
     diagram |-> "none", persist |-> "none", store |-> PRIMARY_FORK_NAME,
     detected |-> FALSE]

TaskIds == Projects \X Slots

\* No fork name computed yet.
IdleNaming == [pc |-> "idle", project |-> 0, slot |-> 0, created |-> <<>>, detected |-> <<>>,
               text |-> <<>>, index |-> 0, got |-> <<>>, searched |-> <<>>]

\* delete_project before the request.
IdleDelete == [project |-> 0, response |-> "none"]

\* get_project before the request: blueprints is the list of the response,
\* lookups counts the calls of create_fork_session, fallback tells that
\* the handler went on to read the primary store after the forks.
IdleGet ==
    [pc |-> "idle", project |-> 0, response |-> "none", blueprints |-> {},
     lookups |-> 0, fallback |-> FALSE,
     status |-> "none"]

\* search_project_forks before the request: query is the text as sent,
\* query_text the text after strip(); lookups, embedding_calls and opened
\* count the calls of crud.get_project and agents.generate_embedding and
\* collect the stores a session was opened on.
IdleSearch ==
    [pc |-> "idle", project |-> 0, query |-> <<>>, query_text |-> <<>>,
     response |-> "none", lookups |-> 0, embedding_calls |-> 0,
     query_embedding |-> "none", reachable |-> {},
     enumerated |-> FALSE, fork_names |-> <<>>, opened |-> {},
     sessions |-> <<>>, outcomes |-> <<>>, results |-> <<>>]

InitialFlagIgnoresServiceId == ~TIGER_AVAILABLE

\* main.py line 65:
\* force_primary_mode = (not TIGER_AVAILABLE) or (not settings.tiger_service_id)
InitialFlag == (~TIGER_AVAILABLE) \/ (~tiger_service_id)

Init ==
    /\ TIGER_AVAILABLE \in BOOLEAN
    /\ tiger_service_id \in BOOLEAN
    /\ force_primary_mode = InitialFlag
    /\ projects = [p \in Projects |-> "absent"]
    /\ blueprints = [s \in StoreNames |-> {}]
    /\ analyses = [s \in StoreNames |-> {}]
    /\ forks = {}
    /\ fork_projects = [f \in ForkNames |-> {}]
    /\ req = [p \in Projects |-> IdleRequest]
    /\ task = [t \in TaskIds |-> IdleTask]
    /\ got = IdleGet
    /\ deletion = IdleDelete
    /\ naming = IdleNaming
    /\ search = IdleSearch

\* --------------------------------------------- main.py: create_project
\* POST /projects, line 484: crud.create_project inserts the row as
\* pending; the handler then awaits the architect call. Project ids are
\* fresh uuids: the model hands them out in order.
CreateProjectBegin(p) ==
    /\ req[p].pc = "none"
    /\ projects[p] = "absent"
    /\ \A q \in Projects : q < p => projects[q] # "absent"
    /\ projects' = [projects EXCEPT ![p] = "pending"]
    /\ req' = [req EXCEPT ![p] = [@ EXCEPT !.pc = "generating"]]
    /\ UNCHANGED <<config, search, got, deletion, naming, force_primary_mode, stores, task>>

StartedTask(fork_name) ==
    [IdleTask EXCEPT !.stage = "critique", !.fork_name = fork_name,
                     !.systems = "pending", !.bizops = "pending"]

\* background_tasks.add_task(blueprint_analysis_orchestrator, project_id,
\* blueprint, fork_name, None, None): the run is queued, not started.
ScheduledTask(fork_name) ==
    [IdleTask EXCEPT !.stage = "scheduled", !.fork_name = fork_name]

AddTask(tasks, p, i, fork_name) ==
    [tasks EXCEPT ![<<p, i>>] = ScheduledTask(fork_name)]

ForkSkippedIgnoresFlag(flag) == ~TIGER_AVAILABLE \/ ~tiger_service_id

\* create_database_fork, line 150: the guard that skips the fork command.
ForkSkipped(flag) == flag \/ ~TIGER_AVAILABLE \/ ~tiger_service_id

\* lines 504-533: the loop over the designs from index i on, up to the
\* next suspension: the await of the fork subprocess of slot i, or the
\* return of the response when no design is left. In degraded mode
\* create_database_fork returns PRIMARY_FORK_NAME without suspending, so
\* every remaining slot is scheduled in the same run.
CreateProjectLoop(p, i, n, flag, tasks) ==
    LET r == [req[p] EXCEPT !.designs = n, !.generation = "ok"]
        rest == {j \in Slots : i <= j /\ j < n}
    IN  IF i >= n
        THEN /\ req' = [req EXCEPT ![p] =
                          [r EXCEPT !.pc = "returned", !.response = "processing"]]
             /\ task' = tasks
             /\ force_primary_mode' = flag
        ELSE IF ForkSkipped(flag)
        THEN /\ req' = [req EXCEPT ![p] =
                          [r EXCEPT !.pc = "returned", !.response = "processing"]]
             /\ task' = [t \in TaskIds |->
                           IF t[1] = p /\ t[2] \in rest
                           THEN ScheduledTask(PRIMARY_FORK_NAME)
                           ELSE tasks[t]]
             /\ force_primary_mode' = TRUE
        ELSE /\ req' = [req EXCEPT ![p] = [r EXCEPT !.pc = "forking", !.i = i, !.calls = @ + 1]]
             /\ task' = tasks
             /\ force_primary_mode' = flag

AfterGenerationFailureRetry(r) == [r EXCEPT !.generation = "failed"]

\* lines 493-499: the status is set to error and HTTPException(500) ends
\* the request.
AfterGenerationFailure(r) ==
    [r EXCEPT !.pc = "returned", !.response = "http_500", !.generation = "failed"]

\* lines 489-502: the architect call returns.
ArchitectReturns(p, resp) ==
    /\ req[p].pc = "generating"
    /\ IF ~ArchitectAccepts(resp)
       THEN /\ projects' = UpdateProjectStatus(projects, p, "error")
            /\ req' = [req EXCEPT ![p] = AfterGenerationFailure(@)]
            /\ UNCHANGED <<force_primary_mode, task>>
       ELSE /\ projects' = UpdateProjectStatus(projects, p, "processing")
            /\ CreateProjectLoop(p, 0, Len(resp.designs), force_primary_mode, task)
    /\ UNCHANGED <<config, search, got, deletion, naming, stores>>

ForkOutcomes == {"ok", "nonzero_exit", "auth_required", "file_not_found", "exception"}

FlagAfterForkReset(flag, outcome) == outcome # "ok"

\* create_database_fork, lines 180-211: every failure sets the flag.
FlagAfterFork(flag, outcome) == IF outcome = "ok" THEN flag ELSE TRUE

ForkResultKeepsName(fork_name, outcome) == fork_name

\* create_database_fork, lines 196-211: the name returned to the caller.
ForkResult(fork_name, outcome) ==
    IF outcome = "ok" THEN fork_name ELSE PRIMARY_FORK_NAME

\* create_database_fork, lines 178-211: the fork subprocess of slot
\* req[p].i ends. A fork service starts as a copy of the primary service.
ForkReturns(p, outcome) ==
    /\ req[p].pc = "forking"
    /\ LET i == req[p].i
           name == ForkName(p, i)
           returned == ForkResult(name, outcome)
       IN  /\ IF outcome = "ok"
              THEN /\ forks' = forks \cup {name}
                   /\ fork_projects' =
                        [fork_projects EXCEPT ![name] = {q \in Projects : Exists(q)}]
                   /\ blueprints' = [blueprints EXCEPT ![name] = blueprints[PRIMARY_FORK_NAME]]
                   /\ analyses' = [analyses EXCEPT ![name] = analyses[PRIMARY_FORK_NAME]]
              ELSE UNCHANGED stores
           /\ CreateProjectLoop(p, i + 1, req[p].designs,
                                FlagAfterFork(force_primary_mode, outcome),
                                AddTask(task, p, i, returned))
    /\ UNCHANGED <<config, search, got, deletion, naming, projects>>

\* ------------------------------ main.py: create_fork_session, detector
Raised == <<0, 1>>

\* A session chosen by the name alone.
CreateForkSessionByName(fork_name, open_ok) ==
    IF fork_name = PRIMARY_FORK_NAME THEN PRIMARY_FORK_NAME
    ELSE IF fork_name \in forks /\ open_ok THEN fork_name ELSE Raised

\* create_fork_session: the primary session in degraded mode or for the
\* primary name; otherwise a session on the fork, which raises when the
\* fork cannot be opened (it does not exist, or the connection fails).
CreateForkSession(fork_name, open_ok) ==
    IF force_primary_mode \/ ~TIGER_AVAILABLE \/ fork_name = PRIMARY_FORK_NAME
    THEN PRIMARY_FORK_NAME
    ELSE IF fork_name \in forks /\ open_ok THEN fork_name ELSE Raised

\* project.blueprints and blueprint.analyses of the primary store.
OwnedBlueprints(bps, p) == {b \in bps[PRIMARY_FORK_NAME] : b.project_id = p}
AnalysesOf(ans, store, b) == {a \in ans[store] : a.blueprint_id = b.id}

\* A degraded-mode test that does not look at the analyses.
CompleteInPrimaryAnyBlueprint(table, bps, ans, p) ==
    table[p] \in Statuses /\ OwnedBlueprints(bps, p) # {}

\* update_project_status_if_complete, lines 330-340: degraded mode.
CompleteInPrimary(table, bps, ans, p) ==
    /\ table[p] \in Statuses
    /\ OwnedBlueprints(bps, p) # {}
    /\ \A b \in OwnedBlueprints(bps, p) : AnalysesOf(ans, PRIMARY_FORK_NAME, b) # {}

\* A branching-mode test that reads the fork without opening it.
CompleteInForksUnopened(bps, p, open_ok) == bps[ForkName(p, 0)] # {}

\* lines 342-359: branching mode; only the fork of slot 0 is looked at.
CompleteInForks(bps, p, open_ok) ==
    LET session == CreateForkSession(ForkName(p, 0), open_ok)
        blueprints_complete ==
            IF session # Raised /\ bps[session] # {} THEN 1 ELSE 0
    IN  blueprints_complete = 1

\* A detector that writes processing when the project is not complete.
DetectorMarksIncomplete(table, bps, ans, p, open_ok) ==
    IF (force_primary_mode \/ ~TIGER_AVAILABLE) /\ CompleteInPrimary(table, bps, ans, p)
    THEN UpdateProjectStatus(table, p, "completed")
    ELSE IF ~(force_primary_mode \/ ~TIGER_AVAILABLE) /\ CompleteInForks(bps, p, open_ok)
    THEN UpdateProjectStatus(table, p, "completed")
    ELSE UpdateProjectStatus(table, p, "processing")

\* update_project_status_if_complete: the projects table after the call.
UpdateProjectStatusIfComplete(table, bps, ans, p, open_ok) ==
    IF force_primary_mode \/ ~TIGER_AVAILABLE
    THEN IF CompleteInPrimary(table, bps, ans, p)
         THEN UpdateProjectStatus(table, p, "completed")
         ELSE table
    ELSE IF CompleteInForks(bps, p, open_ok)
         THEN UpdateProjectStatus(table, p, "completed")
         ELSE table

\* ------------------------- main.py: blueprint_analysis_orchestrator
\* The locals of a run end with it; what the run did is kept.
Ended(t, stage) ==
    [t EXCEPT !.stage = stage,
              !.systems_analyses = <<>>, !.bizops_analyses = <<>>,
              !.analyses = <<>>, !.embeddings = <<>>]

\* The background tasks of one request run one after the other, after the
\* response: the run of slot i starts when the runs of the slots before
\* it have ended. It starts both critique calls (asyncio.gather).
TaskStart(p, i) ==
    /\ task[<<p, i>>].stage = "scheduled"
    /\ req[p].pc = "returned"
    /\ \A j \in Slots : j < i => task[<<p, j>>].stage \in {"done", "failed"}
    /\ task' = [task EXCEPT ![<<p, i>>] =
                  [@ EXCEPT !.stage = "critique", !.systems = "pending", !.bizops = "pending"]]
    /\ UNCHANGED <<config, search, got, deletion, naming, force_primary_mode, projects, stores, req>>

\* An except branch that ends the run and leaves the status alone.
OrchestratorFailsSilently(p, i, t) ==
    /\ UNCHANGED projects
    /\ task' = [task EXCEPT ![<<p, i>>] = Ended(t, "failed")]

\* lines 311-319: the except branch of the orchestrator.
OrchestratorFails(p, i, t) ==
    /\ projects' = UpdateProjectStatus(projects, p, "error")
    /\ task' = [task EXCEPT ![<<p, i>>] = Ended(t, "failed")]

\* lines 246-250 and 269-283: after the critique stage one embedding call
\* per finding is started; with no finding the gather is empty and the run
\* goes on to the diagram call.
AfterCritique(t, systems_analyses, bizops_analyses) ==
    LET all == systems_analyses \o bizops_analyses
        withEmbedding == [j \in 1..Len(all) |->
            [keys_ok |-> all[j].keys_ok, is_int |-> all[j].is_int,
             severity |-> all[j].severity, agent_type |-> all[j].agent_type,
             finding_embedding |-> None]]
    IN  [t EXCEPT !.systems_analyses = <<>>, !.bizops_analyses = <<>>,
                  !.critique = IF t.critique = "failed" THEN "failed" ELSE "ok",
                  !.n = Len(all),
                  !.analyses = withEmbedding,
                  !.embeddings = [j \in 1..Len(all) |-> "pending"],
                  !.stage = IF Len(all) = 0 THEN "diagram" ELSE "enrich"]

GatherSwallows(accepted) == FALSE

\* run_analyst_agents, lines 360-375: asyncio.gather without
\* return_exceptions raises as soon as one critique call raises.
GatherRaises(accepted) == ~accepted

JoinsEarly(other) == TRUE

\* run_analyst_agents, line 362: the await of the gather ends when the
\* other critique call has returned too.
Joins(other) == other # "pending"

\* The findings a critique call hands to the gather.
ReturnedFindings(resp, agent_type) ==
    IF AnalystAccepts(resp) THEN Tagged(resp.findings, agent_type) ELSE <<>>

\* What the run did: a critique call that raised is remembered.
Noted(t, accepted) == IF accepted THEN t ELSE [t EXCEPT !.critique = "failed"]

SystemsReturns(p, i, resp) ==
    LET t == Noted([task[<<p, i>>] EXCEPT
                      !.systems = IF AnalystAccepts(resp) THEN "ok" ELSE "raised"],
                   AnalystAccepts(resp))
        found == ReturnedFindings(resp, "systems")
    IN  /\ t.stage = "critique"
        /\ task[<<p, i>>].systems = "pending"
        /\ IF GatherRaises(AnalystAccepts(resp))
           THEN OrchestratorFails(p, i, t)
           ELSE /\ task' = [task EXCEPT ![<<p, i>>] =
                       IF Joins(t.bizops)
                       THEN AfterCritique(t, found, t.bizops_analyses)
                       ELSE [t EXCEPT !.systems_analyses = found]]
                /\ UNCHANGED projects
        /\ UNCHANGED <<config, search, got, deletion, naming, force_primary_mode, stores, req>>

BizopsReturns(p, i, resp) ==
    LET t == Noted([task[<<p, i>>] EXCEPT
                      !.bizops = IF AnalystAccepts(resp) THEN "ok" ELSE "raised"],
                   AnalystAccepts(resp))
        found == ReturnedFindings(resp, "bizops")
    IN  /\ t.stage = "critique"
        /\ task[<<p, i>>].bizops = "pending"
        /\ IF GatherRaises(AnalystAccepts(resp))
           THEN OrchestratorFails(p, i, t)
           ELSE /\ task' = [task EXCEPT ![<<p, i>>] =
                       IF Joins(t.systems)
                       THEN AfterCritique(t, t.systems_analyses, found)
                       ELSE [t EXCEPT !.bizops_analyses = found]]
                /\ UNCHANGED projects
        /\ UNCHANGED <<config, search, got, deletion, naming, force_primary_mode, stores, req>>

\* lines 252-263: one embedding call of the gather (return_exceptions=True)
\* resolves; when all have, each finding gets its finding_embedding and the
\* run goes on to the diagram call.
EmbeddingReturns(p, i, j, outcome) ==
    LET t == task[<<p, i>>]
        resolved == [t.embeddings EXCEPT ![j] = outcome]
        n == Len(t.analyses)
    IN  /\ t.stage = "enrich"
        /\ j \in 1..n
        /\ t.embeddings[j] = "pending"
        /\ task' = [task EXCEPT ![<<p, i>>] =
              IF \E k \in 1..n : resolved[k] = "pending"
              THEN [t EXCEPT !.embeddings = resolved]
              ELSE [t EXCEPT
                      !.embeddings = resolved,
                      !.analyses = [k \in 1..n |->
                          [t.analyses[k] EXCEPT
                              !.finding_embedding = FindingEmbedding(resolved[k])]],
                      !.failed_embeddings = Cardinality({k \in 1..n : resolved[k] = "raise"}),
                      !.stage = "diagram"]]
        /\ UNCHANGED <<config, search, got, deletion, naming, force_primary_mode, projects, stores, req>>

\* The diagram stage as the orchestrator sees it: the synthesized diagram,
\* the fallback diagram generate_mermaid_diagram returns when the provider
\* call fails, or an exception (the lookup of the prompt, the building of
\* the request).
DiagramOutcomes == {"synthesized", "fallback", "raise"}

StoreFaults == {"none", "open", "commit", "detect"}

\* lines 284 and 289: blueprint_with_analyses["mermaid_diagram"].
MermaidDiagram(outcome) == IF outcome = "raise" THEN None ELSE outcome

DiagramErrorPropagates(outcome) == outcome = "raise"

\* lines 286-289: the except branch keeps a diagram failure from ending
\* the run.
DiagramErrorAborts(outcome) == FALSE

\* lines 269-309: the diagram call ends; the run then persists into the
\* store of its fork name and calls the completion detector, without
\* suspending in between. fault is the store call that fails, if one does:
\* the opening of the fork session of the persist step, the commit, or the
\* opening of the fork session of the detector.
DiagramReturns(p, i, outcome, fault) ==
    LET t == [task[<<p, i>>] EXCEPT !.diagram = outcome]
        open_ok == fault # "open"
        commit_ok == fault # "commit"
        detect_ok == fault # "detect"
        data == [name |-> <<p, i>>, analyses |-> t.analyses,
                 mermaid_diagram |-> MermaidDiagram(outcome)]
        session == CreateForkSession(t.fork_name, open_ok)
        found == IF session = PRIMARY_FORK_NAME THEN Exists(p)
                 ELSE p \in fork_projects[session]
        saved == SaveBlueprintAndAnalyses(blueprints[session], analyses[session],
                                          found, p, <<p, i>>, data, commit_ok)
        bps == [blueprints EXCEPT ![session] = saved.blueprints]
        ans == [analyses EXCEPT ![session] = saved.analyses]
    IN  /\ task[<<p, i>>].stage = "diagram"
        /\ IF DiagramErrorAborts(outcome)
           THEN /\ OrchestratorFails(p, i, t)
                /\ UNCHANGED stores
           ELSE IF session = Raised
           THEN /\ OrchestratorFails(p, i, [t EXCEPT !.persist = "open_failed"])
                /\ UNCHANGED stores
           ELSE /\ blueprints' = bps
                /\ analyses' = ans
                /\ UNCHANGED <<forks, fork_projects>>
                /\ IF saved.result # "ok"
                   THEN OrchestratorFails(p, i, [t EXCEPT !.persist = saved.result])
                   ELSE /\ projects' =
                             UpdateProjectStatusIfComplete(projects, bps, ans, p, detect_ok)
                        /\ task' = [task EXCEPT ![<<p, i>>] =
                              Ended([t EXCEPT !.persist = "ok", !.store = session,
                                              !.detected = TRUE], "done")]
        /\ UNCHANGED <<config, search, got, deletion, naming, force_primary_mode, req>>

\* ----------------------------------------- main.py: delete_project
\* crud.delete_project on the session it is given: the project row goes,
\* and with it (cascade "all, delete-orphan") the blueprints and analyses
\* it owns in that store; nothing is found for an id that has no row.
CrudDeleteProject(table, bps, ans, p) ==
    LET owned == OwnedBlueprints(bps, p) IN
    IF table[p] \notin Statuses
    THEN [success |-> FALSE, projects |-> table, blueprints |-> bps, analyses |-> ans]
    ELSE [success |-> TRUE,
          projects |-> [table EXCEPT ![p] = "deleted"],
          blueprints |-> [bps EXCEPT ![PRIMARY_FORK_NAME] = @ \ owned],
          analyses |-> [ans EXCEPT ![PRIMARY_FORK_NAME] =
                          {a \in @ : \A b \in owned : a.blueprint_id # b.id}]]

\* lines 824-827: 404 when crud.delete_project found no project.
DeleteAnswer(success) == IF success THEN "ok" ELSE "http_404"

\* DELETE /projects/{project_id}, lines 803-838: crud.delete_project on the
\* primary session; no fork session is opened.
DeleteCall(p) ==
    LET result == CrudDeleteProject(projects, blueprints, analyses, p) IN
    /\ projects' = result.projects
    /\ blueprints' = result.blueprints
    /\ analyses' = result.analyses
    /\ deletion' = [project |-> p, response |-> DeleteAnswer(result.success)]
    /\ UNCHANGED <<config, search, got, naming, force_primary_mode, forks, fork_projects,
                   req, task>>

\* The pipeline is checked with deletions of projects that exist, by the id
\* create_project returned.
DeleteProject(p) ==
    /\ req[p].pc = "returned"
    /\ Exists(p)
    /\ Cardinality({q \in Projects : projects[q] = "deleted"}) < MaxDeletes
    /\ DeleteCall(p)

Next ==
    \/ \E p \in Projects : CreateProjectBegin(p)
    \/ \E p \in Projects, resp \in ArchitectResponses : ArchitectReturns(p, resp)
    \/ \E p \in Projects, outcome \in ForkOutcomes : ForkReturns(p, outcome)
    \/ \E p \in Projects, i \in Slots : TaskStart(p, i)
    \/ \E p \in Projects, i \in Slots, resp \in AnalystResponses : SystemsReturns(p, i, resp)
    \/ \E p \in Projects, i \in Slots, resp \in AnalystResponses : BizopsReturns(p, i, resp)
    \/ \E p \in Projects, i \in Slots, j \in 1..(2 * MaxFindings), outcome \in EmbeddingOutcomes :
          EmbeddingReturns(p, i, j, outcome)
    \/ \E p \in Projects, i \in Slots, outcome \in DiagramOutcomes, fault \in StoreFaults :
          DiagramReturns(p, i, outcome, fault)
    \/ \E p \in Projects : DeleteProject(p)

Spec == Init /\ [][Next]_vars

\* ================================================================ claims
Live(p) == projects[p] \in Statuses
Gone(p) == projects[p] = "deleted"

\* The blueprint and the analyses the run of slot i of project p inserted,
\* as they are in store s.
SlotBlueprints(s, p, i) == {b \in blueprints[s] : b.id = <<p, i>>}
SlotAnalyses(s, p, i) == {a \in analyses[s] : a.blueprint_id = <<p, i>>}

\* The run of slot i of project p calls the completion detector in this step.
DetectorRuns(p, i) == ~task[<<p, i>>].detected /\ task'[<<p, i>>].detected

\* C1: a status that is completed stays completed for as long as the
\* project exists, and a status becomes completed only in a step in which
\* the completion detector runs for that project.
C1_CompletedIsTerminal ==
    [][\A p \in Projects :
        /\ projects[p] = "completed" => projects'[p] \in {"completed", "deleted"}
        /\ (projects[p] # "completed" /\ projects'[p] = "completed")
              => \E i \in Slots : DetectorRuns(p, i)]_vars

C1_Witness ==
    \E p \in Projects, q \in Projects :
        /\ p # q
        /\ projects[p] = "completed"
        /\ task[<<p, 0>>].detected
        /\ task[<<q, 0>>].stage \in {"done", "failed"}

\* C2: a status that is error stays error for as long as the project
\* exists, whatever runs afterwards.
C2_ErrorIsTerminal ==
    [][\A p \in Projects :
        projects[p] = "error" => projects'[p] \in {"error", "deleted"}]_vars

C2_Witness ==
    \E p \in Projects, q \in Projects :
        /\ p # q
        /\ projects[p] = "error"
        /\ task[<<p, 0>>].stage = "failed"
        /\ projects[q] = "completed"

\* C3: the step in which create_project returns: after a generation that
\* succeeded the response is processing, and with that response the stored
\* status is processing and every run of the project is still queued, none
\* has started.
C3_ReturnsProcessingAtOnce ==
    [][\A p \in Projects :
        (req[p].pc # "returned" /\ req'[p].pc = "returned")
        => /\ req'[p].generation = "ok" => req'[p].response = "processing"
           /\ req'[p].response = "processing"
              => /\ projects'[p] = "processing"
                 /\ req'[p].designs >= 1
                 /\ \A i \in Slots :
                       task'[<<p, i>>].stage =
                           IF i < req'[p].designs THEN "scheduled" ELSE "none"]_vars

C3_Witness ==
    \E p \in Projects :
        /\ req[p].pc = "returned"
        /\ req[p].response = "processing"
        /\ projects[p] = "processing"
        /\ task[<<p, 0>>].stage = "scheduled"
        /\ task[<<p, 0>>].fork_name = ForkName(p, 0)

\* C4: a generation that fails ends the request with a failure, and from
\* then on the status is error (until the project is deleted), no fork of
\* the project exists and no run of it is queued; the step that reports
\* the failure takes the status from pending to error.
C4_FailedGeneration ==
    \A p \in Projects :
        req[p].generation = "failed"
        => /\ req[p].pc = "returned"
           /\ req[p].response = "http_500"
           /\ projects[p] \in {"error", "deleted"}
           /\ \A i \in Slots : ForkName(p, i) \notin forks
           /\ \A i \in Slots : task[<<p, i>>].stage = "none"

C4_PendingToError ==
    [][\A p \in Projects :
        (req[p].generation # "failed" /\ req'[p].generation = "failed")
        => projects[p] = "pending" /\ projects'[p] = "error"]_vars

C4_GenerationFailure == []C4_FailedGeneration /\ C4_PendingToError

C4_Witness ==
    \E p \in Projects, q \in Projects :
        /\ req[p].generation = "failed"
        /\ projects[p] = "error"
        /\ forks # {}
        /\ task[<<q, 0>>].stage = "done"

PersistUnhindered(p, i) ==
    /\ task[<<p, i>>].stage \in {"done", "failed"}
    /\ task[<<p, i>>].critique = "ok"
    /\ task[<<p, i>>].persist \in {"ok", "invalid"}

\* C6: a run whose critique returned n findings of which k embedding calls
\* failed, and on which no store call failed, has persisted its slot:
\* exactly n analyses, exactly k of them without an embedding.
C6_EmbeddingFailSoft ==
    \A p \in Projects, i \in Slots :
        (PersistUnhindered(p, i) /\ Live(p))
        => LET t == task[<<p, i>>]
               rows == SlotAnalyses(t.store, p, i)
           IN  /\ t.persist = "ok"
               /\ Cardinality(rows) = t.n
               /\ Cardinality({a \in rows : a.finding_embedding = None}) = t.failed_embeddings

\* The diagram of a persisted blueprint row.
RowDiagram(b) == IF "mermaid_diagram" \in DOMAIN b THEN b.mermaid_diagram ELSE None

DiagramFailed(p, i) == task[<<p, i>>].diagram \in {"fallback", "raise"}

\* C7: a run whose diagram synthesis failed went on to its persist step;
\* when that step succeeded the detector was called, the blueprint is in
\* the store without a diagram, and the status is not error.
C7_DiagramFailSoft ==
    \A p \in Projects, i \in Slots :
        DiagramFailed(p, i)
        => LET t == task[<<p, i>>] IN
           /\ t.persist # "none"
           /\ t.persist = "ok"
              => /\ t.stage = "done"
                 /\ t.detected
                 /\ projects[p] # "error"
                 /\ (t.store # PRIMARY_FORK_NAME \/ Live(p))
                       => SlotBlueprints(t.store, p, i) # {}
                 /\ \A s \in StoreNames :
                       \A b \in SlotBlueprints(s, p, i) : RowDiagram(b) = None

C7_Witness ==
    \E p \in Projects, q \in Projects :
        /\ DiagramFailed(p, 0) /\ task[<<p, 0>>].diagram = "raise"
        /\ task[<<p, 0>>].persist = "ok"
        /\ SlotBlueprints(task[<<p, 0>>].store, p, 0) # {}
        /\ projects[p] = "completed"
        /\ q # p
        /\ task[<<q, 0>>].diagram = "fallback"
        /\ task[<<q, 0>>].persist = "ok"

\* C8: in every store every analysis has its blueprint and every blueprint
\* has all the analyses of its run; a persist step that fails leaves every
\* store as it was.
C8_NoPartialSlot ==
    \A s \in StoreNames :
        /\ \A a \in analyses[s] : \E b \in blueprints[s] : b.id = a.blueprint_id
        /\ \A b \in blueprints[s] :
              Cardinality({a \in analyses[s] : a.blueprint_id = b.id}) = task[b.id].n

C8_FailedPersistChangesNothing ==
    [][\A p \in Projects, i \in Slots :
        (task[<<p, i>>].persist = "none" /\ task'[<<p, i>>].persist \notin {"none", "ok"})
        => blueprints' = blueprints /\ analyses' = analyses]_vars

C8_PersistAllOrNothing == []C8_NoPartialSlot /\ C8_FailedPersistChangesNothing

C8_Witness ==
    \E p \in Projects, q \in Projects :
        /\ task[<<p, 0>>].persist = "invalid"
        /\ task[<<p, 0>>].n >= 1
        /\ task[<<q, 0>>].persist = "commit_failed"
        /\ \A s \in StoreNames : blueprints[s] = {} /\ analyses[s] = {}

\* The store the slot resolves to: the primary store in degraded mode, the
\* fork of the slot otherwise.
ResolvedStore(p, i) ==
    IF force_primary_mode \/ ~TIGER_AVAILABLE THEN PRIMARY_FORK_NAME ELSE ForkName(p, i)

SlotPersisted(p, i) ==
    /\ SlotBlueprints(ResolvedStore(p, i), p, i) # {}
    /\ Cardinality(SlotAnalyses(ResolvedStore(p, i), p, i)) = task[<<p, i>>].n

\* C9: the status of a project is completed exactly when every slot of it
\* has its blueprint, with its analyses, in the store the slot resolves to.
C9_CompletedIffPersisted ==
    \A p \in Projects :
        (Live(p) /\ req[p].generation = "ok")
        => (projects[p] = "completed"
               <=> \A i \in Slots : i < req[p].designs => SlotPersisted(p, i))

\* C10: the degraded flag never goes from true to false.
C10_FlagMonotone == [][force_primary_mode => force_primary_mode']_vars

\* The flag was false at the start and has been set, with a fork created
\* before and a run that ended after.
C10_Witness ==
    /\ TIGER_AVAILABLE /\ tiger_service_id
    /\ force_primary_mode
    /\ forks # {}
    /\ \E p \in Projects :
          /\ task[<<p, 0>>].stage = "done"
          /\ task[<<p, 0>>].fork_name = PRIMARY_FORK_NAME
          /\ task[<<p, 0>>].store = PRIMARY_FORK_NAME

\* C11: once the degraded flag is true no request starts a fork command:
\* no step taken with the flag true raises the number of fork commands of
\* any request or moves a request to the await of one.
C11_NoForkAfterDegraded ==
    [][force_primary_mode
        => \A p \in Projects :
              /\ req'[p].calls = req[p].calls
              /\ req'[p].pc = "forking" => req[p].pc = "forking"]_vars

\* The flag was false at the start, the fork command of one request
\* failed, and a request after that scheduled its run without a fork
\* command.
C11_Witness ==
    /\ TIGER_AVAILABLE /\ tiger_service_id
    /\ force_primary_mode
    /\ \E q \in Projects : req[q].calls = 1 /\ ForkName(q, 0) \notin forks
    /\ \E p \in Projects :
          /\ req[p].pc = "returned" /\ req[p].generation = "ok"
          /\ req[p].calls = 0
          /\ task[<<p, 0>>].fork_name = PRIMARY_FORK_NAME

\* The fork command of request p ends in failure in this step.
ForkFails(p) ==
    /\ req[p].pc = "forking"
    /\ req'[p].pc # "forking"
    /\ forks' = forks

\* C12: a fork command that fails sets the degraded flag, gives the slot
\* the primary name, leaves the status of the project as it was, schedules
\* the run of the slot and lets the request return processing.
C12_ForkFailureStep ==
    [][\A p \in Projects :
        ForkFails(p)
        => /\ force_primary_mode'
           /\ projects'[p] = projects[p]
           /\ task'[<<p, req[p].i>>] = ScheduledTask(PRIMARY_FORK_NAME)
           /\ req'[p].pc = "returned" => req'[p].response = "processing"]_vars

\* The run of a slot that was given the primary name opens the primary
\* store and, when its persist step succeeds, has its blueprint there.
C12_RunsAgainstPrimary ==
    \A p \in Projects, i \in Slots :
        LET t == task[<<p, i>>] IN
        (t.stage # "none" /\ t.fork_name = PRIMARY_FORK_NAME)
        => /\ t.store = PRIMARY_FORK_NAME
           /\ t.persist # "open_failed"
           /\ (t.persist = "ok" /\ Live(p))
                 => SlotBlueprints(PRIMARY_FORK_NAME, p, i) # {}

C12_ForkFailureAbsorbed == []C12_RunsAgainstPrimary /\ C12_ForkFailureStep

C12_Witness ==
    /\ TIGER_AVAILABLE /\ tiger_service_id
    /\ \E p \in Projects :
          /\ req[p].calls = 1
          /\ req[p].response = "processing"
          /\ ForkName(p, 0) \notin forks
          /\ task[<<p, 0>>].fork_name = PRIMARY_FORK_NAME
          /\ task[<<p, 0>>].persist = "ok"
          /\ SlotBlueprints(PRIMARY_FORK_NAME, p, 0) # {}

\* C13: when the tool is unavailable or the service id is unset at the
\* start, the flag is true in every state, no fork command is ever run, no
\* fork exists, every slot is given the primary name and every session
\* that is opened is a session on the primary store.
C13_DegradedFromStart ==
    (~TIGER_AVAILABLE \/ ~tiger_service_id)
    => /\ force_primary_mode
       /\ forks = {}
       /\ \A p \in Projects : req[p].calls = 0 /\ req[p].pc # "forking"
       /\ \A t \in TaskIds :
             task[t].fork_name = PRIMARY_FORK_NAME /\ task[t].store = PRIMARY_FORK_NAME
       /\ \A f \in StoreNames, open_ok \in BOOLEAN :
             CreateForkSession(f, open_ok) = PRIMARY_FORK_NAME

C13_Witness ==
    /\ TIGER_AVAILABLE /\ ~tiger_service_id
    /\ \E p \in Projects :
          /\ req[p].pc = "returned" /\ req[p].generation = "ok"
          /\ task[<<p, 0>>].persist = "ok"
          /\ SlotBlueprints(PRIMARY_FORK_NAME, p, 0) # {}

\* The rows of slot (p, i) are in no store but the fork of the slot.
OnlyInOwnFork(p, i) ==
    \A s \in StoreNames \ {ForkName(p, i)} :
        SlotBlueprints(s, p, i) = {} /\ SlotAnalyses(s, p, i) = {}

\* C14: for every slot whose fork exists, the blueprint and the analyses
\* of the slot are in that fork only: not in the primary store and not in
\* the fork of another slot.
C14_BranchBinding ==
    \A p \in Projects, i \in Slots :
        ForkName(p, i) \in forks => OnlyInOwnFork(p, i)

\* The detector called once and twice on project p in the present state.
DetectOnce(p, open_ok) ==
    UpdateProjectStatusIfComplete(projects, blueprints, analyses, p, open_ok)

DetectTwice(p, open_ok) ==
    UpdateProjectStatusIfComplete(DetectOnce(p, open_ok), blueprints, analyses, p, open_ok)

\* C15: in every reachable state a call of the detector on any project
\* leaves a completed project completed, leaves the status of a project
\* with an unpersisted slot as it is, touches no other project, and a
\* second call changes nothing more.
C15_DetectorIdempotent ==
    \A p \in Projects, open_ok \in BOOLEAN :
        /\ DetectTwice(p, open_ok) = DetectOnce(p, open_ok)
        /\ projects[p] = "completed" => DetectOnce(p, open_ok) = projects
        /\ (\E i \in Slots : i < req[p].designs /\ ~SlotPersisted(p, i))
              => DetectOnce(p, open_ok) = projects
        /\ \A q \in Projects \ {p} : DetectOnce(p, open_ok)[q] = projects[q]

\* One project has been completed by its detector call and the store of
\* its slot has since changed to the primary store; another project has
\* been through its detector call and is not complete.
C15_Witness ==
    \E p \in Projects, q \in Projects :
        /\ projects[p] = "completed"
        /\ task[<<p, 0>>].detected
        /\ force_primary_mode
        /\ task[<<q, 0>>].detected
        /\ projects[q] = "processing"

\* ------------------------------------------------ the detector on its own
\* update_project_status_if_complete applied to stores drawn from a
\* bounded set: per slot the primary store has no blueprint, a blueprint
\* without analyses or a blueprint with one analysis; per project the fork
\* of slot 0 is missing, empty or holds the blueprint of the slot.
SlotStates == {"none", "bare", "analysed"}
ForkStates == {"missing", "empty", "holds"}

DrawnBlueprint(t) == BlueprintRow(t, t[1], [name |-> t])
DrawnAnalysis(t) == AnalysisRow(t, 1, [severity |-> 10, finding_embedding |-> None])

DetectorInit ==
    /\ TIGER_AVAILABLE \in BOOLEAN
    /\ tiger_service_id \in BOOLEAN
    /\ force_primary_mode \in BOOLEAN
    /\ InitialFlag => force_primary_mode
    /\ projects \in [Projects -> {"absent", "processing", "completed"}]
    /\ \E slot \in [TaskIds -> SlotStates], fork \in [Projects -> ForkStates] :
          /\ forks = {ForkName(p, 0) : p \in {q \in Projects : fork[q] # "missing"}}
          /\ blueprints =
                [s \in StoreNames |->
                    IF s = PRIMARY_FORK_NAME
                    THEN {DrawnBlueprint(t) : t \in {u \in TaskIds : slot[u] # "none"}}
                    ELSE IF s[2] = 0 /\ fork[s[1]] = "holds"
                    THEN {DrawnBlueprint(s)}
                    ELSE {}]
          /\ analyses =
                [s \in StoreNames |->
                    IF s = PRIMARY_FORK_NAME
                    THEN {DrawnAnalysis(t) : t \in {u \in TaskIds : slot[u] = "analysed"}}
                    ELSE {}]
    /\ fork_projects = [f \in ForkNames |-> {}]
    /\ req = [p \in Projects |-> IdleRequest]
    /\ task = [t \in TaskIds |-> IdleTask]
    /\ got = IdleGet
    /\ deletion = IdleDelete
    /\ naming = IdleNaming
    /\ search = IdleSearch

\* One call update_project_status_if_complete(p); task[<<p, 0>>].detected
\* records that it was made.
DetectorCall(p, open_ok) ==
    /\ ~task[<<p, 0>>].detected
    /\ projects' = UpdateProjectStatusIfComplete(projects, blueprints, analyses, p, open_ok)
    /\ task' = [task EXCEPT ![<<p, 0>>] = [@ EXCEPT !.detected = TRUE]]
    /\ UNCHANGED <<config, search, got, deletion, naming, force_primary_mode, stores, req>>

DetectorNext == \E p \in Projects, open_ok \in BOOLEAN : DetectorCall(p, open_ok)

DetectorSpec == DetectorInit /\ [][DetectorNext]_vars

\* The detector is called on project p in this step, in degraded mode, and
\* p is in the primary store.
DegradedDetectStep(p) ==
    /\ ~task[<<p, 0>>].detected
    /\ task'[<<p, 0>>].detected
    /\ force_primary_mode \/ ~TIGER_AVAILABLE
    /\ Exists(p)

EveryOwnedAnalysed(p) ==
    \A b \in OwnedBlueprints(blueprints, p) : AnalysesOf(analyses, PRIMARY_FORK_NAME, b) # {}

\* The stores with every fork emptied.
PrimaryOnly(rows) == [s \in StoreNames |-> IF s = PRIMARY_FORK_NAME THEN rows[s] ELSE {}]

ExpectedSlots == {i \in Slots : ArchitectAccepts([kind |-> "list", designs |-> [j \in 1..(i + 1) |-> TRUE]])}

\* The fork of slot (p, i) exists, opens, and holds a blueprint.
BranchHolds(p, i, open_ok) ==
    /\ ForkName(p, i) \in forks
    /\ open_ok
    /\ blueprints[ForkName(p, i)] # {}

\* C17: in branching mode a detector call on a project leaves it completed
\* exactly when it was completed already or the fork of every expected
\* slot opens and holds a blueprint; a fork that is missing or does not
\* open leaves every status as it was, and no call writes a status other
\* than completed.
C17_BranchingDetector ==
    \A p \in Projects, open_ok \in BOOLEAN :
        (~(force_primary_mode \/ ~TIGER_AVAILABLE) /\ Exists(p))
        => /\ DetectOnce(p, open_ok)[p] = "completed"
                 <=> \/ projects[p] = "completed"
                     \/ \A i \in ExpectedSlots : BranchHolds(p, i, open_ok)
           /\ (\E i \in ExpectedSlots : ForkName(p, i) \notin forks \/ ~open_ok)
                 => DetectOnce(p, open_ok) = projects
           /\ \A q \in Projects : DetectOnce(p, open_ok)[q] \in {projects[q], "completed"}

\* In branching mode one call has completed a project whose fork holds a
\* blueprint and another has left a project whose fork is missing as it
\* was.
C17_Witness ==
    \E p \in Projects, q \in Projects :
        /\ ~force_primary_mode /\ TIGER_AVAILABLE
        /\ task[<<p, 0>>].detected /\ projects[p] = "completed"
        /\ blueprints[ForkName(p, 0)] # {}
        /\ task[<<q, 0>>].detected /\ projects[q] = "processing"
        /\ ForkName(q, 0) \notin forks

\* The order of the stages of a run.
StageRank(stage) ==
    CASE stage = "none" -> 0
      [] stage = "scheduled" -> 1
      [] stage = "critique" -> 2
      [] stage = "enrich" -> 3
      [] stage = "diagram" -> 4
      [] stage = "done" -> 5
      [] stage = "failed" -> 5

\* What a run has behind it at each stage.
StagesInOrder(p, i) ==
    LET t == task[<<p, i>>]
        embedding == {j \in DOMAIN t.embeddings : t.embeddings[j] # "pending"}
    IN  /\ t.stage # "none" => req[p].generation = "ok"
        /\ (t.stage = "enrich" \/ embedding # {} \/ t.n > 0)
              => t.systems = "ok" /\ t.bizops = "ok"
        /\ (t.stage = "diagram" \/ t.diagram # "none")
              => /\ t.systems = "ok" /\ t.bizops = "ok"
                 /\ \A j \in DOMAIN t.embeddings : t.embeddings[j] # "pending"
        /\ t.persist # "none" => t.diagram # "none"
        /\ t.detected => t.persist = "ok"

\* C18: in every state each run has the earlier stages behind it: its
\* project was generated; embedding calls exist only after both critique
\* calls returned; the diagram stage is entered only with every embedding
\* call resolved; the persist step follows the end of the diagram call; the
\* detector call follows a persist that committed; and no step takes a run
\* back to an earlier stage or past the next one, except to its end in
\* failure.
C18_InOrder ==
    [][\A p \in Projects, i \in Slots :
        LET a == task[<<p, i>>].stage
            b == task'[<<p, i>>].stage
        IN  /\ StageRank(a) <= StageRank(b)
            /\ (a # b /\ b \notin {"failed", "done"})
                  => \/ StageRank(b) = StageRank(a) + 1
                     \/ a = "critique" /\ b = "diagram" /\ task'[<<p, i>>].n = 0
            /\ (a # b /\ b = "done") => a = "diagram"
            /\ (a # b /\ b = "failed") => a \in {"critique", "diagram"}]_vars

C18_StagesBehind == \A p \in Projects, i \in Slots : StagesInOrder(p, i)

C18_StageOrder == []C18_StagesBehind /\ C18_InOrder

\* One run went through every stage to its detector call; another had an
\* embedding call fail and went on through the diagram stage to persist.
C18_Witness ==
    \E p \in Projects, q \in Projects :
        /\ task[<<p, 0>>].stage = "done" /\ task[<<p, 0>>].detected
        /\ task[<<q, 0>>].n >= 1
        /\ task[<<q, 0>>].failed_embeddings >= 1
        /\ task[<<q, 0>>].persist # "none"

\* ------------------------------------- main.py: search_project_forks
\* A query is a sequence of characters, each a blank or not.
Chars == {"blank", "letter"}
Queries == UNION {[1..n -> Chars] : n \in 0..MaxQueryLen}

RECURSIVE LStrip(_)
LStrip(q) == IF q # <<>> /\ Head(q) = "blank" THEN LStrip(Tail(q)) ELSE q

RECURSIVE RStrip(_)
RStrip(q) ==
    IF q # <<>> /\ q[Len(q)] = "blank" THEN RStrip(SubSeq(q, 1, Len(q) - 1)) ELSE q

NoStrip(q) == q

\* str.strip(), line 748.
Strip(q) == RStrip(LStrip(q))

\* get_project_fork_names: the primary name in degraded mode; otherwise the
\* names project_<id>_blueprint_<index>, index from 0 up, as far as a
\* session opens on each. reach: the forks that open.
ProbeForksFrom(p, index, reach) ==
    [k \in 1..Cardinality({n \in reach : n[1] = p /\ n[2] >= index}) |->
        ForkName(p, index + k - 1)]

RECURSIVE ProbeForks(_, _, _)
ProbeForks(p, index, reach) ==
    IF index >= max_forks \/ ForkName(p, index) \notin reach
    THEN <<>>
    ELSE <<ForkName(p, index)>> \o ProbeForks(p, index + 1, reach)

GetProjectForkNames(p, reach) ==
    IF force_primary_mode \/ ~TIGER_AVAILABLE
    THEN <<PRIMARY_FORK_NAME>>
    ELSE ProbeForks(p, 0, reach)

\* crud.hybrid_search_in_fork, line 247: the statement orders by
\* models.Analysis.finding_embedding, an attribute the class must have.
HybridSearchRaises == "finding_embedding" \notin AnalysisColumns

\* The rows of a set as a list, in some order.
RECURSIVE SetToSeq(_)
SetToSeq(rows) ==
    IF rows = {} THEN <<>>
    ELSE LET r == CHOOSE x \in rows : TRUE IN <<r>> \o SetToSeq(rows \ {r})

\* .limit(limit), line 249: at most limit of the rows.
Limited(rows) ==
    LET all == SetToSeq(rows) IN
    IF Len(all) <= limit THEN all ELSE SubSeq(all, 1, limit)

\* The outcome of a branch query that raised.
QueryRaised == [raised |-> TRUE, rows |-> <<>>]

\* The statement of lines 238-249 on the rows of the session's store: the
\* Analyses whose finding matches, cut at limit; it has no condition on the
\* blueprint or the project. Every row of the model matches the query.
HybridStatement(rows) == Limited(rows)

\* crud.hybrid_search_in_fork on the rows of one store: an exception, or a
\* list of at most limit rows.
HybridSearchInFork(rows) ==
    IF HybridSearchRaises THEN QueryRaised
    ELSE [raised |-> FALSE, rows |-> HybridStatement(rows)]

\* search_single_fork, lines 769-784: [] when the session does not open,
\* otherwise what the query gives.
SearchSingleFork(session) ==
    IF session = Raised THEN [raised |-> FALSE, rows |-> <<>>]
    ELSE HybridSearchInFork(analyses[session])

SearchFailsOnBranchError(outcomes) == \E k \in DOMAIN outcomes : outcomes[k].raised

\* lines 787-794: gather(return_exceptions=True); no outcome of a branch
\* ends the search.
SearchFails(outcomes) == FALSE

\* lines 789-794: the lists of the branches one after the other; an
\* exception is left out.
\* A combination cut to limit rows over all branches.
RECURSIVE CombinedCut(_)
CombinedCut(outcomes) ==
    LET all == IF outcomes = <<>> THEN <<>>
               ELSE (IF Head(outcomes).raised THEN <<>> ELSE Head(outcomes).rows)
                    \o CombinedCut(Tail(outcomes))
    IN  IF Len(all) <= limit THEN all ELSE SubSeq(all, 1, limit)

RECURSIVE Combined(_)
Combined(outcomes) ==
    IF outcomes = <<>> THEN <<>>
    ELSE (IF Head(outcomes).raised THEN <<>> ELSE Head(outcomes).rows)
         \o Combined(Tail(outcomes))

QueryEmbeddingOutcomes == {"vector", "empty", "raise"}

\* lines 748-757: the request arrives; up to the await of the embedding.
SearchBegin(p, query) ==
    LET s == [search EXCEPT !.project = p, !.query = query, !.query_text = Strip(query)] IN
    /\ search.pc = "idle"
    /\ search' =
          IF s.query_text = <<>>
          THEN [s EXCEPT !.pc = "returned", !.response = "http_400_empty_query"]
          ELSE IF ~Exists(p)
          THEN [s EXCEPT !.pc = "returned", !.response = "http_404",
                         !.lookups = @ + 1]
          ELSE [s EXCEPT !.pc = "embedding", !.lookups = @ + 1,
                         !.embedding_calls = @ + 1]
    /\ UNCHANGED <<config, got, deletion, naming, force_primary_mode, projects, stores, req, task>>

EmbeddingRejectionOnlyOnRaise(outcome) ==
    IF outcome = "raise" THEN "http_500_embedding_failed" ELSE "none"

\* lines 756-763: HTTP 500 when generate_embedding raises, HTTP 400 when
\* the embedding is empty.
EmbeddingRejection(outcome) ==
    IF outcome = "raise" THEN "http_500_embedding_failed"
    ELSE IF outcome = "empty" THEN "http_400_embedding_unavailable"
    ELSE "none"

\* lines 756-786: the embedding call ends; the fork names are enumerated
\* and a session is opened on each for its query. reach: the forks that
\* open during the enumeration; reach2: those that open for the query.
SearchEmbeddingReturns(outcome, reach, reach2) ==
    LET s == [search EXCEPT !.query_embedding = outcome]
        names == GetProjectForkNames(search.project, reach)
        probed == [s EXCEPT !.enumerated = TRUE, !.fork_names = names,
                            !.reachable = reach]
    IN  /\ search.pc = "embedding"
        /\ search' =
              IF EmbeddingRejection(outcome) # "none"
              THEN [s EXCEPT !.pc = "returned", !.response = EmbeddingRejection(outcome)]
              ELSE IF names = <<>>
              THEN [probed EXCEPT !.pc = "returned", !.response = "ok"]
              ELSE [probed EXCEPT
                      !.pc = "querying",
                      !.sessions = [k \in 1..Len(names) |->
                                      CreateForkSession(names[k], names[k] \in reach2)],
                      !.opened = {CreateForkSession(names[k], names[k] \in reach2) :
                                    k \in 1..Len(names)} \ {Raised}]
        /\ UNCHANGED <<config, got, deletion, naming, force_primary_mode, projects, stores, req, task>>

\* lines 787-800: the queries of the gather have ended; a query that raised
\* is logged and left out.
SearchQueriesReturn ==
    LET outcomes == [k \in 1..Len(search.sessions) |-> SearchSingleFork(search.sessions[k])] IN
    /\ search.pc = "querying"
    /\ search' =
          IF SearchFails(outcomes)
          THEN [search EXCEPT !.pc = "returned", !.response = "http_500",
                              !.outcomes = outcomes]
          ELSE [search EXCEPT !.pc = "returned", !.response = "ok",
                              !.outcomes = outcomes, !.results = Combined(outcomes)]
    /\ UNCHANGED <<config, got, deletion, naming, force_primary_mode, projects, stores, req, task>>

\* The forks of project p that exist.
ProjectForks(p) == {n \in forks : n[1] = p}

SearchNext ==
    \/ \E p \in Projects, query \in Queries :
          SearchBegin(p, query)
    \/ \E outcome \in QueryEmbeddingOutcomes :
          \E reach \in SUBSET ProjectForks(search.project),
             reach2 \in SUBSET ProjectForks(search.project) :
                SearchEmbeddingReturns(outcome, reach, reach2)
    \/ SearchQueriesReturn

\* The search handler against stores that do not change: per project the
\* primary store and the fork of slot 0 as drawn.
SearchInit ==
    /\ TIGER_AVAILABLE \in BOOLEAN
    /\ tiger_service_id \in BOOLEAN
    /\ force_primary_mode \in BOOLEAN
    /\ InitialFlag => force_primary_mode
    /\ projects \in [Projects -> {"absent", "processing", "completed"}]
    /\ \E slot \in [Projects -> SlotStates], fork \in [TaskIds -> ForkStates] :
          /\ \A t \in TaskIds : t[2] # 0 => fork[t] # "holds"
          /\ forks = {t \in TaskIds : fork[t] # "missing"}
          /\ blueprints =
                [s \in StoreNames |->
                    IF s = PRIMARY_FORK_NAME
                    THEN {DrawnBlueprint(<<p, 0>>) : p \in {q \in Projects : slot[q] # "none"}}
                    ELSE IF fork[s] = "holds"
                    THEN {DrawnBlueprint(s)}
                    ELSE {}]
          /\ analyses =
                [s \in StoreNames |->
                    IF s = PRIMARY_FORK_NAME
                    THEN {DrawnAnalysis(<<p, 0>>) : p \in {q \in Projects : slot[q] = "analysed"}}
                    ELSE {}]
    /\ fork_projects = [f \in ForkNames |-> {}]
    /\ req = [p \in Projects |-> IdleRequest]
    /\ task = [t \in TaskIds |-> IdleTask]
    /\ got = IdleGet
    /\ deletion = IdleDelete
    /\ naming = IdleNaming
    /\ search = IdleSearch

SearchSpec == SearchInit /\ [][SearchNext]_vars

\* The query of the search is empty once stripped of blanks.
BlankQuery == \A k \in 1..Len(search.query) : search.query[k] = "blank"

\* C19: a search whose query is empty or all blanks is over at once with
\* the 400 response, the project was not looked up, no embedding was asked
\* for, no fork name was enumerated and no session was opened.
C19_EmptyQueryRejected ==
    (search.pc # "idle" /\ BlankQuery)
    => /\ search.pc = "returned"
       /\ search.response = "http_400_empty_query"
       /\ search.lookups = 0
       /\ search.embedding_calls = 0
       /\ ~search.enumerated
       /\ search.opened = {}

C19_Witness ==
    /\ search.pc = "returned"
    /\ Len(search.query) = MaxQueryLen
    /\ BlankQuery
    /\ Exists(search.project)
    /\ search.response = "http_400_empty_query"

\* C20: a search whose embedding call raised or gave an empty embedding is
\* over with the error response of that case; no fork name was enumerated,
\* no session was opened on any store and no result was returned.
C20_NoEmbeddingNoFanOut ==
    search.query_embedding \in {"raise", "empty"}
    => /\ search.pc = "returned"
       /\ search.response = IF search.query_embedding = "raise"
                            THEN "http_500_embedding_failed"
                            ELSE "http_400_embedding_unavailable"
       /\ ~search.enumerated
       /\ search.fork_names = <<>>
       /\ search.opened = {}
       /\ search.results = <<>>

\* The embedding of a search on a project with a fork that holds a
\* blueprint came back empty, in branching mode.
C20_Witness ==
    /\ search.query_embedding = "empty"
    /\ search.pc = "returned"
    /\ ~force_primary_mode /\ TIGER_AVAILABLE
    /\ blueprints[ForkName(search.project, 0)] # {}

\* ------------------------------------- get_project_fork_names on its own
\* The enumeration applied to drawn sets of forks of one project, with
\* indices up to MaxProbe, each fork opening or not.
ProbeInit ==
    /\ TIGER_AVAILABLE \in BOOLEAN
    /\ tiger_service_id \in BOOLEAN
    /\ force_primary_mode \in BOOLEAN
    /\ InitialFlag => force_primary_mode
    /\ projects = [p \in Projects |-> IF p = 1 THEN "processing" ELSE "absent"]
    /\ blueprints = [s \in StoreNames |-> {}]
    /\ analyses = [s \in StoreNames |-> {}]
    /\ forks \in SUBSET {ForkName(1, index) : index \in 0..MaxProbe}
    /\ fork_projects = [f \in ForkNames |-> {}]
    /\ req = [p \in Projects |-> IdleRequest]
    /\ task = [t \in TaskIds |-> IdleTask]
    /\ got = IdleGet
    /\ deletion = IdleDelete
    /\ naming = IdleNaming
    /\ search = [IdleSearch EXCEPT !.pc = "embedding", !.project = 1,
                                   !.query = <<"letter">>, !.query_text = <<"letter">>]

\* fork_names = get_project_fork_names(project_id), line 765.
Enumerate(reach) ==
    /\ search.pc = "embedding"
    /\ search' = [search EXCEPT
                    !.pc = "querying", !.enumerated = TRUE, !.reachable = reach,
                    !.fork_names = GetProjectForkNames(search.project, reach)]
    /\ UNCHANGED <<config, got, deletion, naming, force_primary_mode, projects, stores, req, task>>

ProbeNext == \E reach \in {forks} : Enumerate(reach)

ProbeSpec == ProbeInit /\ [][ProbeNext]_vars

\* The enumeration of the search is the one of branching mode.
BranchingEnumeration ==
    search.enumerated /\ ~(force_primary_mode \/ ~TIGER_AVAILABLE)

\* C21: the names enumerated for a search are the primary name alone in
\* degraded mode; in branching mode they are the names of slots 0, 1, 2,
\* ... of the project in order, each one opening, at most max_forks of
\* them, ending before the first slot that does not open.
C21_ContiguousPrefix ==
    LET names == search.fork_names
        p == search.project
    IN  /\ (search.enumerated /\ ~BranchingEnumeration)
              => names = <<PRIMARY_FORK_NAME>>
        /\ BranchingEnumeration
              => /\ Len(names) <= max_forks
                 /\ \A k \in 1..Len(names) :
                       names[k] = ForkName(p, k - 1) /\ names[k] \in search.reachable
                 /\ Len(names) < max_forks => ForkName(p, Len(names)) \notin search.reachable

\* Branching mode: slots 0 and 1 opened, slot 2 did not, slot 3 would have.
C21_Witness ==
    /\ BranchingEnumeration
    /\ Len(search.fork_names) = 2
    /\ ForkName(search.project, 2) \notin search.reachable
    /\ ForkName(search.project, 3) \in search.reachable

\* Branching mode: every slot up to MaxProbe opened and max_forks names
\* were enumerated.
C21_WitnessCap ==
    /\ BranchingEnumeration
    /\ Len(search.fork_names) = max_forks
    /\ ForkName(search.project, max_forks) \in search.reachable

\* The branches of the search whose session did not open or whose query
\* raised.
FailedBranches ==
    {k \in DOMAIN search.sessions :
        search.sessions[k] = Raised \/ search.outcomes[k].raised}

RECURSIVE ListsOf(_, _)
ListsOf(outcomes, failed) ==
    IF outcomes = <<>> THEN <<>>
    ELSE (IF Len(outcomes) \in failed THEN <<>> ELSE outcomes[Len(outcomes)].rows)
         \o ListsOf(SubSeq(outcomes, 1, Len(outcomes) - 1), failed)

Branches == 1..NumBranches
MatchCounts == {0, 1, limit, limit + 1}
BranchRows(k, n) == {<<k, r>> : r \in 1..n}
BranchOutcome(k, raised, n) ==
    IF raised THEN QueryRaised ELSE [raised |-> FALSE, rows |-> Limited(BranchRows(k, n))]

CombineInit ==
    /\ TIGER_AVAILABLE \in BOOLEAN
    /\ tiger_service_id \in BOOLEAN
    /\ force_primary_mode \in BOOLEAN
    /\ InitialFlag => force_primary_mode
    /\ projects = [p \in Projects |-> IF p = 1 THEN "processing" ELSE "absent"]
    /\ blueprints = [s \in StoreNames |-> {}]
    /\ analyses = [s \in StoreNames |-> {}]
    /\ forks = {}
    /\ fork_projects = [f \in ForkNames |-> {}]
    /\ req = [p \in Projects |-> IdleRequest]
    /\ task = [t \in TaskIds |-> IdleTask]
    /\ got = IdleGet
    /\ deletion = IdleDelete
    /\ naming = IdleNaming
    /\ search = [IdleSearch EXCEPT !.pc = "querying", !.project = 1,
                                   !.query = <<"letter">>, !.query_text = <<"letter">>,
                                   !.query_embedding = "vector", !.enumerated = TRUE]

\* search_results = await asyncio.gather(...), lines 787-800.
Combine(outcomes) ==
    /\ search.pc = "querying"
    /\ search' = [search EXCEPT !.pc = "returned", !.response = "ok",
                                !.outcomes = outcomes, !.results = Combined(outcomes)]
    /\ UNCHANGED <<config, got, deletion, naming, force_primary_mode, projects, stores, req, task>>

CombineNext ==
    \E raised \in [Branches -> BOOLEAN], n \in [Branches -> MatchCounts] :
        Combine([k \in Branches |-> BranchOutcome(k, raised[k], n[k])])

CombineSpec == CombineInit /\ [][CombineNext]_vars

\* The list of branch k, empty for an exception.
ListOf(k) == IF search.outcomes[k].raised THEN <<>> ELSE search.outcomes[k].rows

RECURSIVE LenUpTo(_)
LenUpTo(k) == IF k = 0 THEN 0 ELSE LenUpTo(k - 1) + Len(ListOf(k))

\* C23: the result of a search is the lists of its branches one after the
\* other in the order of the branches: its length is the sum of their
\* lengths, however large, the list of branch k fills the positions after
\* those of the branches before it, and each list has at most limit rows.
C23_Concatenation ==
    search.pc = "returned"
    => LET n == Len(search.outcomes) IN
       /\ Len(search.results) = LenUpTo(n)
       /\ \A k \in 1..n :
             /\ Len(ListOf(k)) <= limit
             /\ SubSeq(search.results, LenUpTo(k - 1) + 1, LenUpTo(k)) = ListOf(k)

\* Every branch gave limit rows: the result has NumBranches * limit rows.
C23_Witness ==
    /\ search.pc = "returned"
    /\ Len(search.outcomes) = NumBranches
    /\ \A k \in Branches : Len(ListOf(k)) = limit /\ ~search.outcomes[k].raised
    /\ Len(search.results) = NumBranches * limit

\* C24: a run whose critique calls both succeeded and whose persist step
\* committed has, at its end, left its project completed. The detector
\* call is in the step of the commit and no run of the project follows.
C24_PersistedMeansCompleted ==
    \A p \in Projects, i \in Slots :
        (task[<<p, i>>].stage = "done" /\ task[<<p, i>>].persist = "ok" /\ Live(p))
        => projects[p] = "completed"

\* ------------------------------------------------- main.py: get_project
\* The attributes the handler reads from a blueprint row (lines 588-593 and
\* 629-634; the fallback, lines 670-674, leaves mermaid_diagram out) and
\* from an analysis row (lines 596-600, 641-645, 677-681).
BlueprintReads == {"id", "name", "description", "pros", "cons", "mermaid_diagram"}
FallbackBlueprintReads == {"id", "name", "description", "pros", "cons"}
AnalysisReads == {"id", "category", "finding", "severity", "agent_type"}

\* Reading an attribute the mapped class does not have raises AttributeError.
Readable(reads, columns) == reads \subseteq columns

\* Building the dict of blueprint b of a store raises.
RowRaises(store, b, reads) ==
    \/ ~Readable(reads, BlueprintColumns)
    \/ /\ AnalysesOf(analyses, store, b) # {}
       /\ ~Readable(AnalysisReads, AnalysisColumns)

\* The dict of a blueprint: the row and the analyses below it.
BlueprintDict(store, b) ==
    [id |-> b.id, analyses |-> {a.id : a \in AnalysesOf(analyses, store, b)}]

BlueprintDicts(store, rows) == {BlueprintDict(store, b) : b \in rows}

GetResponse(p, response, dicts, lookups, fallback) ==
    [pc |-> "returned", project |-> p, response |-> response,
     blueprints |-> dicts, lookups |-> lookups, fallback |-> fallback,
     status |-> "none"]

\* lines 584-610: degraded mode reads project.blueprints of the primary
\* store; an exception leaves through the handler's except as a 500.
GetDegraded(p) ==
    LET owned == OwnedBlueprints(blueprints, p) IN
    IF \E b \in owned : RowRaises(PRIMARY_FORK_NAME, b, BlueprintReads)
    THEN GetResponse(p, "http_500", {}, 0, FALSE)
    ELSE GetResponse(p, "ok", BlueprintDicts(PRIMARY_FORK_NAME, owned), 0, FALSE)

\* lines 615-657: the fork of slot 0 is opened and every blueprint of it
\* is read; an exception of the opening or of a read is swallowed and the
\* loop goes on. A fork holds at most one blueprint, so nothing was
\* appended before a read that raises.
ForkDicts(p, open_ok) ==
    LET session == CreateForkSession(ForkName(p, 0), open_ok) IN
    IF session = Raised THEN {}
    ELSE IF \E b \in blueprints[session] : RowRaises(session, b, BlueprintReads)
    THEN {}
    ELSE BlueprintDicts(session, blueprints[session])

\* lines 659-691: with nothing from the fork, the blueprints of the
\* project in the primary store.
GetBranching(p, open_ok) ==
    LET found == ForkDicts(p, open_ok)
        owned == OwnedBlueprints(blueprints, p)
    IN  IF found # {} THEN GetResponse(p, "ok", found, 1, FALSE)
        ELSE IF \E b \in owned : RowRaises(PRIMARY_FORK_NAME, b, FallbackBlueprintReads)
        THEN GetResponse(p, "http_500", {}, 1, TRUE)
        ELSE GetResponse(p, "ok", BlueprintDicts(PRIMARY_FORK_NAME, owned), 1, TRUE)

\* GET /projects/{project_id}, lines 566-700.
GetProjectResult(p, open_ok) ==
    IF ~Exists(p) THEN GetResponse(p, "http_404", {}, 0, FALSE)
    ELSE IF projects[p] # "completed" THEN GetResponse(p, "ok", {}, 0, FALSE)
    ELSE IF ~TIGER_AVAILABLE \/ force_primary_mode THEN GetDegraded(p)
    ELSE GetBranching(p, open_ok)

GetProject(p, open_ok) ==
    /\ got' = GetProjectResult(p, open_ok)
    /\ UNCHANGED <<config, search, deletion, naming, force_primary_mode, projects, stores, req, task>>

\* The handler against stores that do not change: per project a status,
\* the rows of slot 0 in the primary store and the fork of slot 0.
GetInit ==
    /\ TIGER_AVAILABLE \in BOOLEAN
    /\ tiger_service_id \in BOOLEAN
    /\ force_primary_mode \in BOOLEAN
    /\ InitialFlag => force_primary_mode
    /\ projects \in [Projects -> Statuses \cup {"absent"}]
    /\ \E slot \in [Projects -> SlotStates], fork \in [Projects -> ForkStates] :
          /\ forks = {ForkName(p, 0) : p \in {q \in Projects : fork[q] # "missing"}}
          /\ blueprints =
                [s \in StoreNames |->
                    IF s = PRIMARY_FORK_NAME
                    THEN {DrawnBlueprint(<<p, 0>>) : p \in {q \in Projects : slot[q] # "none"}}
                    ELSE IF s[2] = 0 /\ fork[s[1]] = "holds"
                    THEN {DrawnBlueprint(s)}
                    ELSE {}]
          /\ analyses =
                [s \in StoreNames |->
                    IF s = PRIMARY_FORK_NAME
                    THEN {DrawnAnalysis(<<p, 0>>) : p \in {q \in Projects : slot[q] = "analysed"}}
                    ELSE {}]
    /\ fork_projects = [f \in ForkNames |-> {}]
    /\ req = [p \in Projects |-> IdleRequest]
    /\ task = [t \in TaskIds |-> IdleTask]
    /\ got = IdleGet
    /\ deletion = IdleDelete
    /\ naming = IdleNaming
    /\ search = IdleSearch

GetNext == \E p \in Projects, open_ok \in BOOLEAN : GetProject(p, open_ok)

GetSpec == GetInit /\ [][GetNext]_vars

\* The last get_project call was for a project that exists.
GotProject == got.pc = "returned" /\ Exists(got.project)

Degraded == ~TIGER_AVAILABLE \/ force_primary_mode

\* C25, first half: for a project whose status is not completed the
\* response is the empty blueprint list and no fork session was asked for.
C25_IncompleteIsEmpty ==
    (GotProject /\ projects[got.project] # "completed")
    => /\ got.response = "ok"
       /\ got.blueprints = {}
       /\ got.lookups = 0

AllAnalyses == UNION {analyses[s] : s \in StoreNames}

\* C26: every Analysis row of a store carries the tag of the critique
\* persona that produced it: the tag a run holds on a finding is a keyword
\* of the models.Analysis(...) call of the persist step and a column of
\* the class.
C26_OriginTag ==
    /\ \A a \in AllAnalyses :
          "agent_type" \in DOMAIN a /\ a.agent_type \in {"systems", "bizops"}
    /\ \A t \in TaskIds :
          (\E j \in 1..Len(task[t].analyses) :
                task[t].analyses[j].agent_type \in {"systems", "bizops"})
          => "agent_type" \in (AnalysisKwargs \cap AnalysisColumns)

\* The findings a run holds: those of each critique call and the merged
\* list the persist step is given.
HeldFindings(t) ==
    {task[t].systems_analyses[j] : j \in 1..Len(task[t].systems_analyses)}
    \cup {task[t].bizops_analyses[j] : j \in 1..Len(task[t].bizops_analyses)}
    \cup {task[t].analyses[j] : j \in 1..Len(task[t].analyses)}

\* C27: every Analysis row of every store has an integer severity from 1
\* to 10, and so has every finding a run holds after a critique call: a
\* finding outside that range is not handed on to the persist step.
C27_SeverityInRange ==
    /\ \A a \in AllAnalyses : a.severity \in 1..10
    /\ \A t \in TaskIds : \A f \in HeldFindings(t) : f.is_int /\ f.severity \in 1..10

\* A run holds a finding on its way to the persist step while the run of
\* another project has ended on a critique call that raised.
C27_Witness ==
    \E t \in TaskIds, u \in TaskIds :
        /\ task[t].stage = "diagram" /\ task[t].n > 0
        /\ task[u].stage = "failed" /\ task[u].critique = "failed"

\* The delete handler against stores as drawn for get_project.
DeleteNext == \E p \in Projects : DeleteCall(p)

DeleteSpec == GetInit /\ [][DeleteNext]_vars

\* delete_project is called for project p in this step.
DeleteStep(p) == deletion' # deletion /\ deletion'.project = p

\* The rows of project p in all the stores.
BlueprintsOfProject(bps, p) == UNION {{b \in bps[s] : b.project_id = p} : s \in StoreNames}
AnalysesOfProject(ans, p) == UNION {{a \in ans[s] : a.blueprint_id[1] = p} : s \in StoreNames}

\* C28, second half: delete-project for an id that has no project answers
\* 404 and changes no project and no store.
C28_UnknownIdNotFound ==
    [][\A p \in Projects :
        (DeleteStep(p) /\ ~Exists(p))
        => /\ deletion'.response = "http_404"
           /\ UNCHANGED <<projects, stores>>]_vars

\* C28: delete-project for a project that exists removes the project and
\* leaves no Blueprint and no Analysis of it in any store; for an id that
\* has no project it answers 404 and changes nothing.
C28_DeleteCascades ==
    [][\A p \in Projects :
        DeleteStep(p)
        => IF Exists(p)
           THEN /\ deletion'.response = "ok"
                /\ projects'[p] = "deleted"
                /\ BlueprintsOfProject(blueprints', p) = {}
                /\ AnalysesOfProject(analyses', p) = {}
           ELSE /\ deletion'.response = "http_404"
                /\ UNCHANGED <<projects, stores>>]_vars

\* ------------------------------------------ a store call that stalls
\* The store calls of the persist step (create_fork_session with its
\* create_all, crud.save_blueprint_and_analyses, lines 292-304) are plain
\* calls of an async function: they are not awaited and not handed to a
\* thread, so the event loop runs nothing else until they return. A run is
\* at stage "persist" while it is inside such a call.
StoreCallStalls(p, i) ==
    /\ task[<<p, i>>].stage = "diagram"
    /\ task' = [task EXCEPT ![<<p, i>>] = [@ EXCEPT !.stage = "persist"]]
    /\ UNCHANGED <<config, search, got, deletion, naming, force_primary_mode, projects, stores, req>>

\* No run is inside a call that holds the event loop.
LoopFree == \A t \in TaskIds : task[t].stage # "persist"

\* The pipeline with store calls that may never return: every handler and
\* every run is a coroutine of the one event loop.
StallNext ==
    \/ \E p \in Projects : LoopFree /\ CreateProjectBegin(p)
    \/ \E p \in Projects, resp \in ArchitectResponses : LoopFree /\ ArchitectReturns(p, resp)
    \/ \E p \in Projects, outcome \in ForkOutcomes : LoopFree /\ ForkReturns(p, outcome)
    \/ \E p \in Projects, i \in Slots : LoopFree /\ TaskStart(p, i)
    \/ \E p \in Projects, i \in Slots, resp \in AnalystResponses :
          LoopFree /\ SystemsReturns(p, i, resp)
    \/ \E p \in Projects, i \in Slots, resp \in AnalystResponses :
          LoopFree /\ BizopsReturns(p, i, resp)
    \/ \E p \in Projects, i \in Slots, j \in 1..(2 * MaxFindings), outcome \in EmbeddingOutcomes :
          LoopFree /\ EmbeddingReturns(p, i, j, outcome)
    \/ \E p \in Projects, i \in Slots, outcome \in DiagramOutcomes, fault \in StoreFaults :
          LoopFree /\ DiagramReturns(p, i, outcome, fault)
    \/ \E p \in Projects : LoopFree /\ DeleteProject(p)
    \/ \E p \in Projects, i \in Slots : LoopFree /\ StoreCallStalls(p, i)

StallSpec == Init /\ [][StallNext]_vars

\* The run of slot u has an external call out.
Running(u) == task[u].stage \in {"critique", "enrich", "diagram"}

\* C29, the awaited calls: with the event loop free, a run that has an
\* external call out can take its next step whatever the runs of the other
\* slots are waiting for.
C29_AwaitedCallsIsolated ==
    \A u \in TaskIds :
        (LoopFree /\ Running(u)) => ENABLED (StallNext /\ task'[u] # task[u])

\* C29: while a run is inside a store call that does not return, the run
\* of a slot of another project can take its next step as soon as its own
\* external call returns, and create-project can answer for another
\* project.
C29_StallIsolated ==
    \A t \in TaskIds :
        task[t].stage = "persist"
        => /\ \A u \in TaskIds :
                (u[1] # t[1] /\ Running(u))
                => ENABLED (StallNext /\ task'[u] # task[u])
           /\ \A q \in Projects :
                (q # t[1] /\ req[q].pc = "generating")
                => ENABLED (StallNext /\ req'[q] # req[q])

\* The persist step of the run of slot i of project p happens in this step.
PersistStep(p, i) ==
    task[<<p, i>>].stage = "diagram" /\ task'[<<p, i>>].stage \in {"done", "failed"}

\* With the flag set, what a get-project call and the enumeration of a
\* search would do in this state: no fork session asked for, the primary
\* store as the only store named.
C30_ReadersUsePrimary ==
    force_primary_mode
    => \A p \in Projects :
          /\ \A open_ok \in BOOLEAN : GetProjectResult(p, open_ok).lookups = 0
          /\ \A reach \in SUBSET forks :
                GetProjectForkNames(p, reach) = <<PRIMARY_FORK_NAME>>

\* With the flag set, a persist step writes to the primary store alone,
\* whatever fork name the slot was given, and a detector call completes a
\* project only on the rows of the primary store.
C30_WritersUsePrimary ==
    [][\A p \in Projects, i \in Slots :
        force_primary_mode
        => /\ PersistStep(p, i)
              => /\ \A s \in ForkNames :
                       blueprints'[s] = blueprints[s] /\ analyses'[s] = analyses[s]
                 /\ task'[<<p, i>>].persist = "ok"
                    => /\ task'[<<p, i>>].store = PRIMARY_FORK_NAME
                       /\ SlotBlueprints(PRIMARY_FORK_NAME, p, i)' # {}
           /\ (DetectorRuns(p, i) /\ projects[p] # "completed" /\ projects'[p] = "completed")
              => CompleteInPrimary(projects, blueprints', analyses', p)]_vars

\* C30: once the degraded flag is true every store resolution (persist,
\* completion detection, get-project, search enumeration) uses the primary
\* store, also for a slot that was given the name of a real fork before
\* the flag flipped.
C30_FlagObservedUniformly == []C30_ReadersUsePrimary /\ C30_WritersUsePrimary

\* The flag flipped after a slot was given a real fork name, and the run
\* of that slot has persisted into the primary store.
C30_Witness ==
    /\ force_primary_mode
    /\ TIGER_AVAILABLE /\ tiger_service_id
    /\ \E p \in Projects, i \in Slots :
          /\ task[<<p, i>>].fork_name # PRIMARY_FORK_NAME
          /\ task[<<p, i>>].fork_name \in forks
          /\ task[<<p, i>>].persist = "ok"
          /\ task[<<p, i>>].store = PRIMARY_FORK_NAME
          /\ SlotBlueprints(PRIMARY_FORK_NAME, p, i) # {}

\* What the persist step of a run ended on when it failed.
PersistFailures == {"open_failed", "project_missing", "invalid", "commit_failed"}

C32_DiagramPersisted ==
    \A p \in Projects, i \in Slots :
        (task[<<p, i>>].diagram = "synthesized" /\ task[<<p, i>>].persist = "ok")
        => \A b \in SlotBlueprints(task[<<p, i>>].store, p, i) :
              RowDiagram(b) = "synthesized"

\* C33: the hybrid query of a branch whose session opened returns rows:
\* Analyses of that branch's store, at most limit of them.
C33_HybridQuery ==
    search.pc = "returned"
    => \A k \in DOMAIN search.outcomes :
          search.sessions[k] # Raised
          => /\ ~search.outcomes[k].raised
             /\ Len(search.outcomes[k].rows) <= limit
             /\ \A j \in DOMAIN search.outcomes[k].rows :
                   search.outcomes[k].rows[j] \in analyses[search.sessions[k]]

\* ------------------------------------------------------- fork names
\* The text of a project id. str(project.id) is lower-case hex with
\* hyphens; uuid.UUID(text), which crud.get_project applies to the text of
\* a request, drops the hyphens and reads the hex digits in either case.
\* An id has two hex digits here.
HexDigits == <<"a", "b", "c", "d", "e", "f">>
UpperDigits == <<"A", "B", "C", "D", "E", "F">>

Lower(c) ==
    IF \E k \in DOMAIN UpperDigits : UpperDigits[k] = c
    THEN HexDigits[CHOOSE k \in DOMAIN UpperDigits : UpperDigits[k] = c]
    ELSE c

NotHyphen(c) == c # "-"

\* uuid.UUID(text): the value, as its lower-case hex digits.
ParseUuid(text) ==
    LET hex == SelectSeq(text, NotHyphen) IN [k \in DOMAIN hex |-> Lower(hex[k])]

\* str(uuid)
StrUuid(hex) == <<hex[1], "-", hex[2]>>

\* The id of project p and its text as create_project passes it on.
ProjectUuid(p) == <<HexDigits[p], "f">>
ProjectIdText(p) == StrUuid(ProjectUuid(p))

\* The texts uuid.UUID reads as an id of two hex digits.
IdTexts ==
    LET digits == {HexDigits[k] : k \in DOMAIN HexDigits}
                  \cup {UpperDigits[k] : k \in DOMAIN UpperDigits}
    IN  {<<x, y>> : x \in digits, y \in {"f", "F"}}
        \cup {<<x, "-", y>> : x \in digits, y \in {"f", "F"}}

Decimals == <<"0", "1", "2", "3", "4", "5", "6", "7", "8", "9">>

\* The decimal digits of a natural number.
RECURSIVE Decimal(_)
Decimal(n) ==
    IF n < 10 THEN <<Decimals[n + 1]>> ELSE Decimal(n \div 10) \o <<Decimals[(n % 10) + 1]>>

\* f"project_{project_id}_blueprint_{index}", on the text it is given.
FormatForkName(text, index) ==
    <<"project_">> \o text \o <<"_blueprint_">> \o Decimal(index)

\* create_database_fork(project_id, i), line 146, with the text of
\* create_project (line 482); the run hands that name to its persist step
\* and the text to the detector, which names slot 0 (line 343).
NameCreated(p, i) ==
    /\ naming.pc = "idle"
    /\ naming' = [naming EXCEPT !.pc = "created", !.project = p, !.slot = i,
                                !.created = FormatForkName(ProjectIdText(p), i),
                                !.detected = FormatForkName(ProjectIdText(p), 0)]
    /\ UNCHANGED <<config, search, got, deletion, force_primary_mode, projects, stores, req, task>>

\* get_project (line 616) and get_project_fork_names (line 376) on the text
\* of the request, for a text crud.get_project finds the project by.
NameLookedUp(text, index) ==
    /\ naming.pc = "created"
    /\ ParseUuid(text) = ProjectUuid(naming.project)
    /\ naming' = [naming EXCEPT !.pc = "looked_up", !.text = text, !.index = index,
                                !.got = FormatForkName(text, 0),
                                !.searched = FormatForkName(text, index)]
    /\ UNCHANGED <<config, search, got, deletion, force_primary_mode, projects, stores, req, task>>

NameNext ==
    \/ \E p \in Projects, i \in Slots : NameCreated(p, i)
    \/ \E text \in IdTexts, index \in 0..(max_forks - 1) : NameLookedUp(text, index)

NameSpec == Init /\ [][NameNext]_vars

\* C34: the name create-branch returns for (project, slot) is the name the
\* detector, get-project and the search compute for that project and slot,
\* and two different (project, slot) pairs have different names.
C34_SameName ==
    /\ naming.pc = "looked_up"
       => /\ naming.index = naming.slot => naming.searched = naming.created
          /\ naming.slot = 0
             => naming.detected = naming.created /\ naming.got = naming.created
    /\ \A p \in Projects, q \in Projects, i \in 0..(max_forks - 1), j \in 0..(max_forks - 1) :
          <<p, i>> # <<q, j>>
          => FormatForkName(ProjectIdText(p), i) # FormatForkName(ProjectIdText(q), j)

\* C34 on the text create-project returned: the names agree.
C34_SameNameCanonical ==
    (naming.pc = "looked_up" /\ naming.text = ProjectIdText(naming.project))
    => /\ naming.index = naming.slot => naming.searched = naming.created
       /\ naming.slot = 0
          => naming.detected = naming.created /\ naming.got = naming.created

\* C35: a project whose status is completed has a run that committed, and
\* the blueprint of that run is in the store it was committed to.
C35_CompletedHasBlueprint ==
    \A p \in Projects :
        projects[p] = "completed"
        => \E i \in Slots :
              /\ task[<<p, i>>].persist = "ok"
              /\ SlotBlueprints(task[<<p, i>>].store, p, i) # {}
              /\ \A b \in SlotBlueprints(task[<<p, i>>].store, p, i) : b.project_id = p

\* A project is completed with its blueprint in its fork while the run of
\* another project has ended without a commit and left no blueprint.
C35_Witness ==
    \E p \in Projects, q \in Projects :
        /\ projects[p] = "completed"
        /\ SlotBlueprints(ForkName(p, 0), p, 0) # {}
        /\ projects[q] \in {"error", "processing"}
        /\ task[<<q, 0>>].stage \in {"done", "failed"}
        /\ BlueprintsOfProject(blueprints, q) = {}

\* ------------------------------- the statement of hybrid_search_in_fork
\* The search with every branch query answered by the statement itself:
\* what lines 238-256 select once the statement is built.
StatementSingleFork(session) ==
    IF session = Raised THEN [raised |-> FALSE, rows |-> <<>>]
    ELSE [raised |-> FALSE, rows |-> HybridStatement(analyses[session])]

SearchStatementsReturn ==
    LET outcomes == [k \in 1..Len(search.sessions) |->
                        StatementSingleFork(search.sessions[k])] IN
    /\ search.pc = "querying"
    /\ search' = [search EXCEPT !.pc = "returned", !.response = "ok",
                                !.outcomes = outcomes, !.results = Combined(outcomes)]
    /\ UNCHANGED <<config, got, deletion, naming, force_primary_mode, projects, stores, req, task>>

StatementNext ==
    \/ \E p \in Projects, query \in Queries :
          SearchBegin(p, query)
    \/ \E outcome \in QueryEmbeddingOutcomes :
          \E reach \in SUBSET ProjectForks(search.project),
             reach2 \in SUBSET ProjectForks(search.project) :
                SearchEmbeddingReturns(outcome, reach, reach2)
    \/ SearchStatementsReturn

StatementSpec == SearchInit /\ [][StatementNext]_vars

C37_CompletedIsReturned ==
    \A p \in Projects :
        projects[p] = "completed"
        => LET response == GetProjectResult(p, TRUE) IN
           /\ response.response = "ok"
           /\ response.blueprints # {}
           /\ \A i \in Slots :
                 task[<<p, i>>].persist = "ok"
                 => \E b \in response.blueprints : b.id = <<p, i>>

\* C38: once the run of a project has ended (every external call of it
\* has returned), the status of the project is completed or error, for as
\* long as the project exists: no run ends with the status at processing.
C38_RunEndsDecided ==
    \A p \in Projects, i \in Slots :
        (task[<<p, i>>].stage \in {"done", "failed"} /\ Live(p))
        => projects[p] \in {"completed", "error"}

\* C39: the completion detector, search, get-project and get-status against
\* stores as drawn.  main.py lines 704-738: get_project_status looks the
\* project up in the primary store and answers with its status, HTTP 404
\* when there is no such project; it writes nothing.
GetProjectStatus(p) ==
    /\ got' = IF Exists(p)
              THEN [GetResponse(p, "ok", {}, 1, FALSE) EXCEPT !.status = projects[p]]
              ELSE GetResponse(p, "http_404", {}, 1, FALSE)
    /\ UNCHANGED <<config, search, deletion, naming, force_primary_mode, projects, stores, req, task>>

FrameInit ==
    /\ GetInit
    /\ tiger_service_id
    /\ projects \in [Projects -> {"absent", "processing", "completed"}]

FrameNext ==
    \/ \E p \in Projects, open_ok \in BOOLEAN : DetectorCall(p, open_ok)
    \/ \E p \in Projects, open_ok \in BOOLEAN : GetProject(p, open_ok)
    \/ \E p \in Projects : GetProjectStatus(p)
    \/ \E p \in Projects, query \in {<<>>, <<"letter">>} : SearchBegin(p, query)
    \/ \E outcome \in QueryEmbeddingOutcomes :
          \E reach \in {{}, ProjectForks(search.project)} :
             SearchEmbeddingReturns(outcome, reach, reach)
    \/ SearchQueriesReturn

FrameSpec == FrameInit /\ [][FrameNext]_vars

DetectorCalled(p) == ~task[<<p, 0>>].detected /\ task'[<<p, 0>>].detected

\* C39: a call of the completion detector changes nothing except possibly
\* the status of the project it is called for; a step of search, get-project
\* or get-status changes no project, no Blueprint and no Analysis row and
\* leaves force_primary_mode alone; every row a store holds is still there,
\* unchanged, after every step of these operations.
C39_FrameEffects ==
    [][/\ \A p \in Projects :
            DetectorCalled(p) =>
               /\ UNCHANGED <<blueprints, analyses, force_primary_mode>>
               /\ \A q \in Projects \ {p} : projects'[q] = projects[q]
       /\ (search' # search \/ got' # got) =>
               UNCHANGED <<projects, blueprints, analyses, force_primary_mode>>
       /\ \A s \in StoreNames :
               blueprints[s] \subseteq blueprints'[s] /\ analyses[s] \subseteq analyses'[s]]_vars

\* The detector has completed project 1 and left project 2 at processing, a
\* get-status call has answered for a project and a search has returned
\* over stores that hold rows.
C39_Witness ==
    /\ task[<<1, 0>>].detected /\ projects[1] = "completed"
    /\ task[<<2, 0>>].detected /\ projects[2] = "processing"
    /\ got.pc = "returned" /\ got.status = "completed"
    /\ search.pc = "returned" /\ search.response = "ok"
    /\ blueprints[PRIMARY_FORK_NAME] # {} /\ analyses[PRIMARY_FORK_NAME] # {}

\* C39, the pipeline's side: every step of the pipeline other than a delete
\* keeps every row a store holds, unchanged.
C39_RowsKept ==
    [][deletion' = deletion =>
          \A s \in StoreNames :
             blueprints[s] \subseteq blueprints'[s] /\ analyses[s] \subseteq analyses'[s]]_vars

\* The stores that hold a Blueprint of slot i of project p.
StoresHolding(p, i) == {s \in StoreNames : SlotBlueprints(s, p, i) # {}}

\* The rows of slot i of project p, over all stores.
RowsOfSlot(p, i) == UNION {SlotBlueprints(s, p, i) : s \in StoreNames}

\* This step inserts a Blueprint of slot i of project p into store s: the
\* store is open before the step and has a row of the slot it did not have.
\* (A fork service that is created in the step starts as a copy of the
\* primary store: its rows are not inserted by any run.)
Inserted(s, p, i) ==
    /\ s = PRIMARY_FORK_NAME \/ s \in forks
    /\ SlotBlueprints(s, p, i)' \ SlotBlueprints(s, p, i) # {}

\* There is one Blueprint row per slot at most; it is in several stores
\* only as the row of the primary store and its copies in fork services
\* created later (after a delete, as those copies alone).
C40_OneRowPerSlot ==
    \A p \in Projects, i \in Slots :
        /\ Cardinality(RowsOfSlot(p, i)) <= 1
        /\ Cardinality(StoresHolding(p, i)) > 1
              => (PRIMARY_FORK_NAME \in StoresHolding(p, i) \/ Gone(p))
        /\ Cardinality(StoresHolding(p, i)) > 1
              => task[<<p, i>>].store = PRIMARY_FORK_NAME

====
